---- MODULE Spec2Model ----
(***************************************************************************)
(* Model of the cipher-studio backend file hierarchy: the FileMetadata and *)
(* Project collections, the S3 blob store, the file and project            *)
(* controllers, the hierarchy utilities of utils/fileHierarchy.js and the  *)
(* retry wrapper of utils/database.js.                                     *)
(*                                                                         *)
(* Seven specifications share the variables:                               *)
(*   Spec        the controllers, one action per completed request,        *)
(*               starting from the empty store;                            *)
(*   SpecEngine  the hierarchy utilities called on any store contents;     *)
(*   SpecNames   checkNamingConflict and generateUniqueName called on any  *)
(*               store contents;                                           *)
(*   SpecRetry   one call of handlePersistenceOperation, step by step;     *)
(*   SpecTree    buildFileTree called on any flat array of documents;      *)
(*   SpecDelete  one deleteFile request, one store call at a time;         *)
(*   SpecRace    two updateFile / createFile requests interleaved.         *)
(***************************************************************************)
EXTENDS Integers, Sequences, FiniteSets, TLC

VARIABLES projects, files, blobs, last, flat, tree

vars == <<projects, files, blobs, last, flat, tree>>

----------------------------------------------------------------------------
(* Bounds of the model. *)

MaxFiles == 3          \* FileMetadata documents alive at once (controllers)
MaxProjects == 2       \* Project documents alive at once
MaxContent == 0        \* longest request content, in bytes
MaxProjName == 1       \* longest project name, in bytes
MaxNodes == 3          \* documents of a store given to the utilities
MaxFlat == 3           \* documents of an array given to buildFileTree

Ids == 1..MaxFiles
ProjIds == 1..MaxProjects
NodeIds == 1..MaxNodes

NULL == 0              \* JavaScript null (and a missing parentId / s3Key)
UNDEF == -1            \* a field the request does not carry (undefined)
NoName == <<>>         \* the request carries no name

----------------------------------------------------------------------------
(* Names are sequences of one-character strings. *)

AppJs == <<"A", "p", "p", ".", "j", "s">>
AppCss == <<"A", "p", "p", ".", "c", "s", "s">>
IndexJs == <<"i", "n", "d", "e", "x", ".", "j", "s">>

\* names a request may carry
Names == {AppJs}

\* createProject: the defaultFiles array, and the byte length of each
\* template (App.js interpolates the project name twice)
defaultFiles == <<AppJs, AppCss, IndexJs>>

AppJsTemplateLen == 434
AppCssLen == 1061
IndexJsLen == 231

DefaultSize(name, projNameLen) ==
  IF name = AppJs THEN AppJsTemplateLen + 2 * projNameLen
  ELSE IF name = AppCss THEN AppCssLen
  ELSE IndexJsLen

Types == {"file", "folder"}

----------------------------------------------------------------------------
(* The FileMetadata collection: a function from the _id of each stored     *)
(* document to its fields.                                                 *)

Doc(projectId, name, type, parentId, s3Key, size) ==
  [projectId |-> projectId, name |-> name, type |-> type,
   parentId |-> parentId, s3Key |-> s3Key, size |-> size]

Stored(fs) == DOMAIN fs

\* FileMetadata.findById
findById(fs, id) == id \in Stored(fs)

\* findFolder without the type filter
findFolderOfAnyType(fs, id, projectId) ==
  /\ id \in Stored(fs)
  /\ fs[id].projectId = projectId

\* FileMetadata.findOne({ _id, projectId, type: 'folder' })
findFolder(fs, id, projectId) ==
  /\ id \in Stored(fs)
  /\ fs[id].projectId = projectId
  /\ fs[id].type = "folder"

\* FileMetadata.findOne({ projectId, name, parentId [, _id: { $ne }] })
findSibling(fs, projectId, name, parentId, excludeId) ==
  \E i \in Stored(fs) :
    /\ i # excludeId
    /\ fs[i].projectId = projectId
    /\ fs[i].name = name
    /\ fs[i].parentId = parentId

\* FileMetadata.find({ parentId })
Children(fs, parentId) == {i \in Stored(fs) : fs[i].parentId = parentId}

\* a save that a unique index on (projectId, parentId, name) turns down
InsertUnlessTaken(fs, id, doc) ==
  IF findSibling(fs, doc.projectId, doc.name, doc.parentId, id) THEN fs
  ELSE [i \in Stored(fs) \cup {id} |-> IF i = id THEN doc ELSE fs[i]]

\* FileMetadata.create / findByIdAndUpdate: the collection with doc saved as
\* document id; the schema has no unique index on (projectId, parentId, name)
Insert(fs, id, doc) == [i \in Stored(fs) \cup {id} |-> IF i = id THEN doc ELSE fs[i]]

Remove(fs, ids) == [i \in Stored(fs) \ ids |-> fs[i]]

\* the _id (and the uuid of the S3 key) that a create generates: one that no
\* stored document has or references and no stored blob is keyed by
Referenced(fs) == {fs[i].parentId : i \in Stored(fs)}

FreeIds(fs, bs) == Ids \ (Stored(fs) \cup Referenced(fs) \cup bs)

Min(S) == CHOOSE m \in S : \A n \in S : m <= n

\* the n smallest members of S, in ascending order
RECURSIVE Smallest(_, _)
Smallest(S, n) ==
  IF n = 0 THEN <<>> ELSE <<Min(S)>> \o Smallest(S \ {Min(S)}, n - 1)

----------------------------------------------------------------------------
(* utils/fileHierarchy.js.  A walk that the code never finishes (a parent  *)
(* chain or a child chain that returns to a document already visited) is   *)
(* the outcome "diverge": the recursion below is cut after one call more   *)
(* than the store has documents, which only a revisit can reach.           *)

Fuel(fs) == Cardinality(Stored(fs)) + 1

\* isFileDescendant without the recursive call: the direct parent only
isFileDescendantDirect(fs, fileId, ancestorId, fuel) ==
  IF ~findById(fs, fileId) \/ fs[fileId].parentId = NULL THEN "false"
  ELSE IF fs[fileId].parentId = ancestorId THEN "true"
  ELSE "false"

RECURSIVE isFileDescendantN(_, _, _, _)
isFileDescendantN(fs, fileId, ancestorId, fuel) ==
  IF fuel = 0 THEN "diverge"
  ELSE IF ~findById(fs, fileId) \/ fs[fileId].parentId = NULL THEN "false"
  ELSE IF fs[fileId].parentId = ancestorId THEN "true"
  ELSE isFileDescendantN(fs, fs[fileId].parentId, ancestorId, fuel - 1)

\* isFileDescendant that counts a document among its own descendants
isFileDescendantOrSelf(fs, fileId, ancestorId) ==
  IF fileId = ancestorId /\ findById(fs, fileId) THEN "true"
  ELSE isFileDescendantN(fs, fileId, ancestorId, Fuel(fs))

isFileDescendant(fs, fileId, ancestorId) ==
  isFileDescendantN(fs, fileId, ancestorId, Fuel(fs))

FileNotFound == "File not found"
CyclicMove == "Cannot move folder into its own descendant"
ParentNotFound == "New parent folder not found"

\* the value returned ("ok" for true) or the message of the Error thrown
validateHierarchyOperation(fs, fileId, newParentId, projectId) ==
  IF newParentId = NULL THEN "ok"
  ELSE IF ~findById(fs, fileId) THEN FileNotFound
  ELSE LET d == IF fs[fileId].type = "folder"
                THEN isFileDescendant(fs, newParentId, fileId)
                ELSE "false"
       IN IF d = "diverge" THEN "diverge"
          ELSE IF d = "true" THEN CyclicMove
          ELSE IF ~findFolder(fs, newParentId, projectId) THEN ParentNotFound
          ELSE "ok"

----------------------------------------------------------------------------
(* models/FileMetadata.js: the static findAllChildren.  ids is the set of  *)
(* documents in the returned array.                                        *)

RECURSIVE findAllChildrenN(_, _, _)
findAllChildrenN(fs, parentId, fuel) ==
  IF fuel = 0 THEN [diverges |-> TRUE, ids |-> {}]
  ELSE LET children == Children(fs, parentId)
           folders == {c \in children : fs[c].type = "folder"}
           sub == [c \in folders |-> findAllChildrenN(fs, c, fuel - 1)]
       IN [diverges |-> \E c \in folders : sub[c].diverges,
           ids |-> children \cup UNION {sub[c].ids : c \in folders}]

findAllChildren(fs, parentId) == findAllChildrenN(fs, parentId, Fuel(fs))

----------------------------------------------------------------------------
(* utils/fileHierarchy.js: getAllDescendants, calculateFolderSize and      *)
(* getFilePath.  A result is [diverges, thrown, value]: diverges when the  *)
(* call never returns; else thrown is the Error it throws ("none": these   *)
(* three have no throw statement) and value is what it returns.            *)
(*                                                                         *)
(* FileMetadata.find({ parentId }) carries no sort, so the order of its    *)
(* result is the store's: ord, an array that lists every _id once, is the  *)
(* order in which the store hands out its documents.                       *)

Returned(value) == [diverges |-> FALSE, thrown |-> "none", value |-> value]

NeverReturns == [diverges |-> TRUE, thrown |-> "none", value |-> <<>>]

\* FileMetadata.find({ parentId }) as an array of _ids
find(fs, ord, parentId) ==
  LET isChild(i) == i \in Children(fs, parentId)
  IN SelectSeq(ord, isChild)

RECURSIVE getChildren(_, _, _, _)
RECURSIVE forEachChild(_, _, _, _)

\* getAllDescendants: the loop `for (const child of children)`, which
\* pushes the child and then, for a folder, everything below it
forEachChild(fs, ord, children, fuel) ==
  IF children = <<>> THEN Returned(<<>>)
  ELSE LET child == Head(children)
           below == IF fs[child].type = "folder"
                    THEN getChildren(fs, ord, child, fuel - 1)
                    ELSE Returned(<<>>)
           rest == forEachChild(fs, ord, Tail(children), fuel)
       IN IF below.diverges \/ rest.diverges THEN NeverReturns
          ELSE Returned(<<child>> \o below.value \o rest.value)

\* getAllDescendants: the inner getChildren(parentId)
getChildren(fs, ord, parentId, fuel) ==
  IF fuel = 0 THEN NeverReturns
  ELSE forEachChild(fs, ord, find(fs, ord, parentId), fuel)

\* getAllDescendants without the recursion into folders
getDirectChildren(fs, ord, folderId) == Returned(find(fs, ord, folderId))

\* the _ids of the documents of the returned array, in its order
getAllDescendants(fs, ord, folderId) == getChildren(fs, ord, folderId, Fuel(fs))

\* the reduce without the filter on the type: folders add their size field
RECURSIVE reduceAll(_, _, _)
reduceAll(fs, descendants, total) ==
  IF descendants = <<>> THEN total
  ELSE reduceAll(fs, Tail(descendants), total + fs[Head(descendants)].size)

\* files.reduce((total, file) => total + (file.size || 0), 0) over the
\* documents of type 'file'
RECURSIVE reduce(_, _, _)
reduce(fs, descendants, total) ==
  IF descendants = <<>> THEN total
  ELSE reduce(fs, Tail(descendants),
              IF fs[Head(descendants)].type = "file"
              THEN total + fs[Head(descendants)].size
              ELSE total)

calculateFolderSize(fs, ord, folderId) ==
  LET descendants == getAllDescendants(fs, ord, folderId)
  IN IF descendants.diverges THEN NeverReturns
     ELSE Returned(reduce(fs, descendants.value, 0))

\* Array.prototype.join on an array of names
RECURSIVE join(_, _)
join(path, sep) ==
  IF path = <<>> THEN <<>>
  ELSE IF Len(path) = 1 THEN path[1]
  ELSE path[1] \o sep \o join(Tail(path), sep)

\* path.push in place of path.unshift
push(path, name) == path \o <<name>>

\* path.unshift(currentFile.name)
unshift(path, name) == <<name>> \o path

\* getFilePath: the while loop, from currentFile on
RECURSIVE getFilePathN(_, _, _, _)
getFilePathN(fs, currentFile, path, fuel) ==
  IF fuel = 0 THEN NeverReturns
  ELSE IF ~findById(fs, currentFile) THEN Returned(join(path, <<"/">>))
  ELSE IF fs[currentFile].parentId # NULL
    THEN getFilePathN(fs, fs[currentFile].parentId,
                      unshift(path, fs[currentFile].name), fuel - 1)
  ELSE Returned(join(unshift(path, fs[currentFile].name), <<"/">>))

getFilePath(fs, fileId) == getFilePathN(fs, fileId, <<>>, Fuel(fs))

----------------------------------------------------------------------------
(* utils/fileHierarchy.js: checkNamingConflict and generateUniqueName.     *)

\* checkNamingConflict that leaves `_id: { $ne: excludeId }` out of the query
checkNamingConflictAnyId(fs, projectId, name, parentId, excludeId) ==
  findSibling(fs, projectId, name,
              IF parentId \in {NULL, UNDEF} THEN NULL ELSE parentId, NULL)

\* the query has parentId: parentId || null and, when excludeId is given,
\* _id: { $ne: excludeId }; findSibling excludes nothing for excludeId NULL
checkNamingConflict(fs, projectId, name, parentId, excludeId) ==
  findSibling(fs, projectId, name,
              IF parentId \in {NULL, UNDEF} THEN NULL ELSE parentId, excludeId)

\* String.prototype.includes on one character
includes(str, c) == \E k \in DOMAIN str : str[k] = c

\* the place of the first c of str
firstIndexOf(str, c) == Min({k \in DOMAIN str : str[k] = c})

\* String.prototype.lastIndexOf: the place of the last c of str, counted
\* from 1 (called only when str includes c)
lastIndexOf(str, c) ==
  CHOOSE k \in DOMAIN str : str[k] = c /\ \A j \in DOMAIN str : str[j] = c => j <= k

\* String.prototype.split on one character: the array of the parts
RECURSIVE split(_, _)
split(str, c) ==
  IF str = <<>> THEN << <<>> >>
  ELSE LET parts == split(Tail(str), c)
       IN IF Head(str) = c THEN << <<>> >> \o parts
          ELSE << <<Head(str)>> \o Head(parts) >> \o Tail(parts)

\* Array.prototype.pop: the last element
pop(parts) == parts[Len(parts)]

\* generateUniqueName: const extension
extension(baseName) ==
  IF includes(baseName, ".") THEN <<".">> \o pop(split(baseName, ".")) ELSE <<>>

\* generateUniqueName: const nameWithoutExt
nameWithoutExt(baseName) ==
  IF includes(baseName, ".")
  THEN SubSeq(baseName, 1, lastIndexOf(baseName, ".") - 1)
  ELSE baseName

DecimalDigits == <<"0", "1", "2", "3", "4", "5", "6", "7", "8", "9">>

\* the counter as the template literal prints it
RECURSIVE toString(_)
toString(n) ==
  IF n < 10 THEN <<DecimalDigits[n + 1]>>
  ELSE toString(n \div 10) \o <<DecimalDigits[(n % 10) + 1]>>

\* `${nameWithoutExt} (${counter})${extension}`
numberedName(baseName, counter) ==
  nameWithoutExt(baseName) \o <<" ", "(">> \o toString(counter) \o <<")">>
    \o extension(baseName)

\* generateUniqueName: the while loop, entered with the current name and
\* counter; checks counts the calls of checkNamingConflict made so far
RECURSIVE generateUniqueNameN(_, _, _, _, _, _, _, _)
generateUniqueNameN(fs, projectId, baseName, parentId, excludeId, name, counter, checks) ==
  IF checkNamingConflict(fs, projectId, name, parentId, excludeId)
  THEN generateUniqueNameN(fs, projectId, baseName, parentId, excludeId,
                           numberedName(baseName, counter), counter + 1, checks + 1)
  ELSE [name |-> name, checks |-> checks + 1]

generateUniqueName(fs, projectId, baseName, parentId, excludeId) ==
  generateUniqueNameN(fs, projectId, baseName, parentId, excludeId, baseName, 1, 0)

----------------------------------------------------------------------------
(* The controllers.  Each action is one completed request served while the *)
(* record store answers (isConnected() is true and no query fails; a       *)
(* request the store fails ends in the catch block with no document        *)
(* written, except where the code catches the failure and goes on, which   *)
(* createProject does for each default file).  s3Service.uploadFile stores *)
(* the blob; s3Service.deleteFiles may delete any part of the keys.        *)
(*                                                                         *)
(* last records the response of the last request (the error code, or the  *)
(* success) and two facts of the store the request met:                    *)
(*   taken     another document already had the (projectId, parentId,      *)
(*             name) that the request asks for;                            *)
(*   sameName  an update carried the name the document already had.        *)
(* The response of a delete also carries deletedFiles, the number of       *)
(* documents it deleted, and last records with it s3Failed: the blob store *)
(* did not delete every key the request handed to s3Service.deleteFiles.   *)

Response(op, code, taken, sameName) ==
  [op |-> op, code |-> code, taken |-> taken, sameName |-> sameName,
   deletedFiles |-> 0, s3Failed |-> FALSE]

Deleted(op, deletedFiles, s3Failed) ==
  [Response(op, "DELETED", FALSE, FALSE) EXCEPT !.deletedFiles = deletedFiles,
                                                !.s3Failed = s3Failed]

NoRequest == Response("none", "none", FALSE, FALSE)

\* another stored document than self has this (projectId, parentId, name)
NameTaken(fs, projectId, parentId, name, self) ==
  \E j \in Stored(fs) \ {self} :
    fs[j].projectId = projectId /\ fs[j].parentId = parentId /\ fs[j].name = name

\* fileController.createFile: the code of the response
createFileCode(projectId, name, parentId) ==
  IF projectId \notin projects THEN "PROJECT_NOT_FOUND"
  ELSE IF parentId # NULL /\ ~findFolder(files, parentId, projectId)
    THEN "PARENT_NOT_FOUND"
  ELSE IF findSibling(files, projectId, name, parentId, NULL) THEN "FILE_EXISTS"
  ELSE "CREATED"

\* content: the byte length of the request's content (files only)
createFile(projectId, name, type, parentId, content) ==
  LET code == createFileCode(projectId, name, parentId)
      id == Min(FreeIds(files, blobs))
  IN /\ code = "CREATED" => FreeIds(files, blobs) # {}
     /\ (type = "folder") = (content = UNDEF)
     /\ last' = Response("createFile", code,
                         NameTaken(files, projectId, parentId, name, NULL), FALSE)
     /\ IF code = "CREATED"
        THEN /\ files' = Insert(files, id,
                  IF type = "file"
                  THEN Doc(projectId, name, type, parentId, id, content)
                  ELSE Doc(projectId, name, type, parentId, NULL, 0))
             /\ blobs' = IF type = "file" THEN blobs \cup {id} ELSE blobs
        ELSE UNCHANGED <<files, blobs>>
     /\ UNCHANGED <<projects, flat, tree>>

\* updateFile: request parentId (a string or null) !== the stored parentId
\* (an ObjectId or null) is false only when both are null
parentIdDiffers(parentId, stored) == ~(parentId = NULL /\ stored = NULL)

\* updateFileCode with the conflict query on the directory the document is
\* in, not on the one the request moves it to
updateFileCodeOldDir(id, name, parentId) ==
  IF ~findById(files, id) THEN "FILE_NOT_FOUND"
  ELSE IF /\ name # NoName
          /\ name # files[id].name
          /\ findSibling(files, files[id].projectId, name, files[id].parentId, id)
    THEN "FILE_EXISTS"
  ELSE IF /\ parentId # UNDEF
          /\ parentIdDiffers(parentId, files[id].parentId)
          /\ parentId # NULL
          /\ ~findFolder(files, parentId, files[id].projectId)
    THEN "PARENT_NOT_FOUND"
  ELSE "UPDATED"

\* fileController.updateFile: the code of the response
updateFileCode(id, name, parentId) ==
  IF ~findById(files, id) THEN "FILE_NOT_FOUND"
  ELSE IF /\ name # NoName
          /\ name # files[id].name
          /\ findSibling(files, files[id].projectId, name,
                         IF parentId # UNDEF THEN parentId ELSE files[id].parentId,
                         id)
    THEN "FILE_EXISTS"
  ELSE IF /\ parentId # UNDEF
          /\ parentIdDiffers(parentId, files[id].parentId)
          /\ parentId # NULL
          /\ ~findFolder(files, parentId, files[id].projectId)
    THEN "PARENT_NOT_FOUND"
  ELSE "UPDATED"

\* updateFile: the document after findByIdAndUpdate(id, updateData)
updateData(doc, name, parentId, content) ==
  [doc EXCEPT !.name = IF name # NoName THEN name ELSE @,
              !.parentId = IF parentId # UNDEF THEN parentId ELSE @,
              !.size = IF content # UNDEF /\ doc.type = "file" THEN content ELSE @]

updateFile(id, name, parentId, content) ==
  LET code == updateFileCode(id, name, parentId)
      known == findById(files, id)
      dir == IF parentId # UNDEF THEN parentId ELSE files[id].parentId
  IN /\ name # NoName \/ parentId # UNDEF \/ content # UNDEF
     /\ last' = Response("updateFile", code,
                         /\ known
                         /\ name # NoName
                         /\ name # files[id].name
                         /\ NameTaken(files, files[id].projectId, dir, name, id),
                         known /\ name = files[id].name)
     /\ IF code = "UPDATED"
        THEN /\ files' = [files EXCEPT ![id] = updateData(@, name, parentId, content)]
             /\ blobs' = IF /\ content # UNDEF
                            /\ files[id].type = "file"
                            /\ files[id].s3Key # NULL
                         THEN blobs \cup {files[id].s3Key}
                         ELSE blobs
        ELSE UNCHANGED <<files, blobs>>
     /\ UNCHANGED <<projects, flat, tree>>

S3Keys(fs, ids) == {fs[i].s3Key : i \in ids} \ {NULL}

\* deleteFile without the children of a folder
deletedFileOnly(id) == {id}

\* fileController.deleteFile: the documents the request deletes, and the
\* keys it hands to s3Service.deleteFiles
deletedFiles(id) ==
  IF files[id].type = "folder" THEN {id} \cup findAllChildren(files, id).ids
  ELSE {id}

\* the keys of the direct children of a folder only
s3KeysOfChildren(id) ==
  IF files[id].type = "folder" THEN S3Keys(files, Children(files, id))
  ELSE S3Keys(files, {id})

s3Keys(id) ==
  IF files[id].type = "folder" THEN S3Keys(files, findAllChildren(files, id).ids)
  ELSE S3Keys(files, {id})

\* a cleanup that a failed blob deletion calls off
cleanupUnlessS3Failed(fs, ids, keys, s3gone) ==
  IF s3gone = keys THEN Remove(fs, ids) ELSE fs

\* the deletes that follow the try block around s3Service.deleteFiles: they
\* run whatever the blob store did with the keys
databaseCleanup(fs, ids, keys, s3gone) == Remove(fs, ids)

\* s3gone: the keys S3 deleted (none when deleteFiles throws)
deleteFile(id, s3gone) ==
  IF ~findById(files, id)
  THEN /\ last' = Response("deleteFile", "FILE_NOT_FOUND", FALSE, FALSE)
       /\ s3gone = {}
       /\ UNCHANGED <<projects, files, blobs, flat, tree>>
  ELSE \* on a folder whose chain of children returns to it,
       \* findAllChildren never returns and the request never ends
       /\ files[id].type = "folder" => ~findAllChildren(files, id).diverges
       /\ s3gone \subseteq s3Keys(id)
       /\ last' = Deleted("deleteFile", Cardinality(deletedFiles(id)),
                          s3gone # s3Keys(id))
       /\ blobs' = blobs \ s3gone
       /\ files' = databaseCleanup(files, deletedFiles(id), s3Keys(id), s3gone)
       /\ UNCHANGED <<projects, flat, tree>>

\* projectController.createProject.  nameLen: the byte length of the
\* project's name; created: the defaultFiles whose FileMetadata.create
\* succeeded (a failure is caught and the loop goes on; the blob uploaded
\* before a failed create is keyed by a uuid that no document carries and
\* is not kept in blobs).
createProject(nameLen, created) ==
  LET id == Min(ProjIds \ projects)
      n == Cardinality(created)
      ids == Smallest(FreeIds(files, blobs), n)
      idx == Smallest(created, n)
      new == {ids[k] : k \in 1..n}
      doc(k) == Doc(id, defaultFiles[idx[k]], "file", NULL, ids[k],
                    DefaultSize(defaultFiles[idx[k]], nameLen))
  IN /\ ProjIds \ projects # {}
     /\ n <= Cardinality(FreeIds(files, blobs))
     /\ last' = Response("createProject", "CREATED", FALSE, FALSE)
     /\ projects' = projects \cup {id}
     /\ files' = [i \in Stored(files) \cup new |->
                    IF i \in new THEN doc(CHOOSE k \in 1..n : ids[k] = i)
                    ELSE files[i]]
     /\ blobs' = blobs \cup new
     /\ UNCHANGED <<flat, tree>>

\* the documents of the project that lie in no folder
ProjectRootFiles(fs, id) ==
  {i \in Stored(fs) : fs[i].projectId = id /\ fs[i].parentId = NULL}

\* FileMetadata.find({ projectId: id }), deleteMany({ projectId: id })
ProjectFiles(fs, id) == {i \in Stored(fs) : fs[i].projectId = id}

\* projectController.deleteProject
deleteProject(id, s3gone) ==
  LET s3Keys_ == S3Keys(files, ProjectFiles(files, id))
  IN IF id \notin projects
     THEN /\ last' = Response("deleteProject", "PROJECT_NOT_FOUND", FALSE, FALSE)
          /\ s3gone = {}
          /\ UNCHANGED <<projects, files, blobs, flat, tree>>
     ELSE /\ s3gone \subseteq s3Keys_
          /\ last' = Deleted("deleteProject", Cardinality(ProjectFiles(files, id)),
                             s3gone # s3Keys_)
          /\ blobs' = blobs \ s3gone
          /\ files' = databaseCleanup(files, ProjectFiles(files, id), s3Keys_, s3gone)
          /\ projects' = projects \ {id}
          /\ UNCHANGED <<flat, tree>>

\* the wrapper inside which a controller issues the call that writes its
\* documents ("none": the model is called with no wrapper around it)
writeWrapper(op) ==
  CASE op = "createProject" -> "none"
    [] op \in {"createFile", "updateFile", "deleteFile", "deleteProject"}
         -> "handleDatabaseOperation"

\* the wrappers inside which a controller issues the queries that every
\* request passes before its write: the lookup of the project or document,
\* and in createFile the query for a document of the same name
checkWrappers(op) ==
  CASE op = "createProject" -> {}
    [] op = "createFile" -> {"handleDatabaseOperation", "none"}
    [] op \in {"updateFile", "deleteFile", "deleteProject"}
         -> {"handleDatabaseOperation"}

Init ==
  /\ projects = {}
  /\ files = <<>>
  /\ blobs = {}
  /\ last = NoRequest
  /\ flat = <<>>
  /\ tree = <<>>

CreateProject ==
  \E nameLen \in 1..MaxProjName, created \in SUBSET (DOMAIN defaultFiles) :
    createProject(nameLen, created)

CreateFile ==
  \E projectId \in ProjIds, name \in Names, type \in Types,
     parentId \in Ids \cup {NULL}, content \in (0..MaxContent) \cup {UNDEF} :
    createFile(projectId, name, type, parentId, content)

UpdateFile ==
  \E id \in Ids, name \in Names \cup {NoName}, parentId \in Ids \cup {NULL, UNDEF},
     content \in (1..MaxContent) \cup {UNDEF} :
    updateFile(id, name, parentId, content)

DeleteFile == \E id \in Ids, s3gone \in SUBSET Ids : deleteFile(id, s3gone)

DeleteProject == \E id \in ProjIds, s3gone \in SUBSET Ids : deleteProject(id, s3gone)

Next == CreateProject \/ CreateFile \/ UpdateFile \/ DeleteFile \/ DeleteProject

Spec == Init /\ [][Next]_vars

\* the arrays that list each id of S once
Orders(S) == {o \in [1..Cardinality(S) -> S] : \A i, j \in DOMAIN o : i # j => o[i] # o[j]}

----------------------------------------------------------------------------
(* SpecEngine: one call of a hierarchy utility on any store contents.  A   *)
(* store holds any subset of NodeIds; a document has any project, type and *)
(* parentId (a stored document, itself, a missing one, or null).           *)

Digit == <<"1", "2", "3", "4", "5", "6", "7", "8", "9">>

NodeName(i) == <<"n", Digit[i]>>

\* the size field of document i is i, whatever its type
NodeDoc(i, projectId, type, parentId) ==
  Doc(projectId, NodeName(i), type, parentId, IF type = "file" THEN i ELSE NULL, i)

Call(op, fileId, newParentId, projectId, ret) ==
  [op |-> op, fileId |-> fileId, newParentId |-> newParentId,
   projectId |-> projectId, ret |-> ret]

InitEngine ==
  /\ \E S \in SUBSET NodeIds :
       \E pf \in [S -> ProjIds], tf \in [S -> Types], parf \in [S -> NodeIds \cup {NULL}] :
         files = [i \in S |-> NodeDoc(i, pf[i], tf[i], parf[i])]
  /\ projects = ProjIds
  /\ blobs = {}
  /\ last = NoRequest
  /\ flat = <<>>
  /\ tree = <<>>

ValidateMove ==
  /\ last = NoRequest
  /\ \E fileId \in NodeIds, newParentId \in NodeIds \cup {NULL}, projectId \in ProjIds :
       last' = Call("validateHierarchyOperation", fileId, newParentId, projectId,
                    validateHierarchyOperation(files, fileId, newParentId, projectId))
  /\ UNCHANGED <<projects, files, blobs, flat, tree>>

IsFileDescendant ==
  /\ last = NoRequest
  /\ \E fileId \in NodeIds, ancestorId \in NodeIds :
       last' = [op |-> "isFileDescendant", fileId |-> fileId,
                ancestorId |-> ancestorId,
                ret |-> isFileDescendant(files, fileId, ancestorId)]
  /\ UNCHANGED <<projects, files, blobs, flat, tree>>

GetAllDescendants ==
  /\ last = NoRequest
  /\ \E folderId \in NodeIds, ord \in Orders(NodeIds) :
       last' = [op |-> "getAllDescendants", folderId |-> folderId,
                ret |-> getAllDescendants(files, ord, folderId)]
  /\ UNCHANGED <<projects, files, blobs, flat, tree>>

CalculateFolderSize ==
  /\ last = NoRequest
  /\ \E folderId \in NodeIds, ord \in Orders(NodeIds) :
       last' = [op |-> "calculateFolderSize", folderId |-> folderId,
                ret |-> calculateFolderSize(files, ord, folderId)]
  /\ UNCHANGED <<projects, files, blobs, flat, tree>>

GetFilePath ==
  /\ last = NoRequest
  /\ \E fileId \in NodeIds :
       last' = [op |-> "getFilePath", fileId |-> fileId,
                ret |-> getFilePath(files, fileId)]
  /\ UNCHANGED <<projects, files, blobs, flat, tree>>

NextEngine ==
  \/ ValidateMove
  \/ IsFileDescendant
  \/ GetAllDescendants
  \/ CalculateFolderSize
  \/ GetFilePath

SpecEngine == InitEngine /\ [][NextEngine]_vars

----------------------------------------------------------------------------
(* SpecNames: one call of checkNamingConflict or generateUniqueName on any *)
(* store of at most MaxNodes documents.  A document has any project, any   *)
(* name of StoreNames and lies at the root or in directory InnerDir.       *)

App1Js == <<"A", "p", "p", " ", "(", "1", ")", ".", "j", "s">>
Src == <<"s", "r", "c">>
ABC == <<"a", ".", "b", ".", "c">>

StoreNames == {AppJs, App1Js, Src, ABC}
BaseNames == {AppJs, Src, ABC}

InnerDir == Min(NodeIds)

InitNames ==
  /\ \E S \in SUBSET NodeIds :
       \E pf \in [S -> ProjIds], nf \in [S -> StoreNames], parf \in [S -> {NULL, InnerDir}] :
         files = [i \in S |-> Doc(pf[i], nf[i], "file", parf[i], i, 0)]
  /\ projects = ProjIds
  /\ blobs = {}
  /\ last = NoRequest
  /\ flat = <<>>
  /\ tree = <<>>

CheckNamingConflict ==
  /\ last = NoRequest
  /\ \E projectId \in ProjIds, name \in BaseNames,
        parentId \in {NULL, UNDEF, InnerDir}, excludeId \in NodeIds \cup {NULL} :
       last' = [op |-> "checkNamingConflict", projectId |-> projectId,
                name |-> name, parentId |-> parentId, excludeId |-> excludeId,
                ret |-> checkNamingConflict(files, projectId, name, parentId, excludeId)]
  /\ UNCHANGED <<projects, files, blobs, flat, tree>>

GenerateUniqueName ==
  /\ last = NoRequest
  /\ \E projectId \in ProjIds, baseName \in BaseNames,
        parentId \in {NULL, UNDEF, InnerDir}, excludeId \in NodeIds \cup {NULL} :
       last' = [op |-> "generateUniqueName", projectId |-> projectId,
                name |-> baseName, parentId |-> parentId, excludeId |-> excludeId,
                ret |-> generateUniqueName(files, projectId, baseName, parentId, excludeId)]
  /\ UNCHANGED <<projects, files, blobs, flat, tree>>

NextNames == CheckNamingConflict \/ GenerateUniqueName

SpecNames == InitNames /\ [][NextNames]_vars

----------------------------------------------------------------------------
(* utils/database.js: isRetryableError.  An error is [message, code,       *)
(* name]; a message is a sequence of characters.                           *)

UpperCase == <<"A", "B", "C", "D", "E", "F", "G", "H", "I", "J", "K", "L", "M",
               "N", "O", "P", "Q", "R", "S", "T", "U", "V", "W", "X", "Y", "Z">>
LowerCase == <<"a", "b", "c", "d", "e", "f", "g", "h", "i", "j", "k", "l", "m",
               "n", "o", "p", "q", "r", "s", "t", "u", "v", "w", "x", "y", "z">>

\* String.prototype.toLowerCase
toLowerCase(str) ==
  [k \in DOMAIN str |->
     IF \E j \in DOMAIN UpperCase : UpperCase[j] = str[k]
     THEN LowerCase[CHOOSE j \in DOMAIN UpperCase : UpperCase[j] = str[k]]
     ELSE str[k]]

\* String.prototype.includes on a string
includesString(str, sub) ==
  \E k \in 0..(Len(str) - Len(sub)) : SubSeq(str, k + 1, k + Len(sub)) = sub

Connection == <<"c", "o", "n", "n", "e", "c", "t", "i", "o", "n">>
Timeout == <<"t", "i", "m", "e", "o", "u", "t">>

retryableCodes == {11000, 16500, 189, 91, 7, 6, 89, 9001}

\* the errors an operation may throw, by name
ErrorOf(e) ==
  CASE e = "ConnectionReset" -> [code |-> UNDEF, name |-> "MongoError",
         message |-> <<"C", "o", "n", "n", "e", "c", "t", "i", "o", "n", " ",
                       "r", "e", "s", "e", "t">>]
    [] e = "QueryTimeout" -> [code |-> UNDEF, name |-> "MongoError",
         message |-> <<"q", "u", "e", "r", "y", " ", "t", "i", "m", "e", "o", "u", "t">>]
    [] e = "NotPrimary" -> [code |-> 189, name |-> "MongoServerError",
         message |-> <<"n", "o", "t", " ", "p", "r", "i", "m", "a", "r", "y">>]
    [] e = "DuplicateKey" -> [code |-> 11000, name |-> "MongoServerError",
         message |-> <<"E", "1", "1", "0", "0", "0", " ", "d", "u", "p", "l", "i",
                       "c", "a", "t", "e", " ", "k", "e", "y">>]
    [] e = "SocketClosed" -> [code |-> UNDEF, name |-> "MongoNetworkError",
         message |-> <<"s", "o", "c", "k", "e", "t", " ", "c", "l", "o", "s", "e", "d">>]
    [] e = "CastFailed" -> [code |-> UNDEF, name |-> "CastError",
         message |-> <<"C", "a", "s", "t", " ", "f", "a", "i", "l", "e", "d">>]
    [] e = "InvalidDocument" -> [code |-> 121, name |-> "MongoServerError",
         message |-> <<"D", "o", "c", "u", "m", "e", "n", "t", " ", "f", "a", "i",
                       "l", "e", "d", " ", "v", "a", "l", "i", "d", "a", "t", "i",
                       "o", "n">>]
    \* new Error('Database connection lost'), thrown by handlePersistenceOperation
    [] e = "ConnectionLost" -> [code |-> UNDEF, name |-> "Error",
         message |-> <<"D", "a", "t", "a", "b", "a", "s", "e", " ", "c", "o", "n",
                       "n", "e", "c", "t", "i", "o", "n", " ", "l", "o", "s", "t">>]
    \* new Error('Database not connected'), thrown by handleDatabaseOperation
    [] e = "NotConnected" -> [code |-> UNDEF, name |-> "Error",
         message |-> <<"D", "a", "t", "a", "b", "a", "s", "e", " ", "n", "o", "t",
                       " ", "c", "o", "n", "n", "e", "c", "t", "e", "d">>]

OperationErrors == {"ConnectionReset", "QueryTimeout", "NotPrimary", "DuplicateKey",
                    "SocketClosed", "CastFailed", "InvalidDocument"}

isRetryableError(e) ==
  LET error == ErrorOf(e)
      message == toLowerCase(error.message)
  IN IF includesString(message, Connection) \/ includesString(message, Timeout)
       THEN TRUE
     ELSE IF error.code # UNDEF /\ error.code \in retryableCodes THEN TRUE
     ELSE IF error.name = "MongoNetworkError" \/ error.name = "MongoTimeoutError"
       THEN TRUE
     ELSE FALSE

----------------------------------------------------------------------------
(* utils/database.js: handlePersistenceOperation and its helpers.  An      *)
(* option the caller may leave out is <<>> when left out and <<v>> when    *)
(* given as v; an object (a context) is the set of its <<key, value>>      *)
(* pairs.  The activation of a call is a record:                           *)
(*   pc         "attempt" at the head of the loop, "waiting" in the        *)
(*              setTimeout, "returned" or "thrown" once finished;          *)
(*   attempt    the loop variable;                                         *)
(*   checked    how often isConnected() was called;                        *)
(*   invoked    how often operation() was called;                          *)
(*   history    per attempt made: "disconnected", "ok" or the error;       *)
(*   timer      the delay of the pending setTimeout;                       *)
(*   waits      the delays waited so far;                                  *)
(*   log        the console lines written, as [level, attempt];            *)
(*   returned, thrown   the outcome.                                       *)

MaxRetries == 3        \* largest maxRetries a caller passes

DefaultMaxRetries == 3
DefaultBaseDelay == 1000
JitterRange == 1000

\* Math.random() * 1000 lies in [0, 1000): its two extreme whole values
Jitters == {0, JitterRange - 1}

\* the value of an option, or its default in the destructuring
OptionOr(option, default) == IF option = <<>> THEN default ELSE option[1]

NothingThrown ==
  [kind |-> "none", originalError |-> "", attempts |-> 0, retryable |-> FALSE,
   context |-> {}, operationName |-> <<>>]

\* the activation on entry of handlePersistenceOperation(operation,
\* operationName, options)
handlePersistenceOperation(operationName, options) ==
  [operationName |-> operationName,
   maxRetries |-> OptionOr(options.maxRetries, DefaultMaxRetries),
   baseDelay |-> OptionOr(options.baseDelay, DefaultBaseDelay),
   enableRetry |-> OptionOr(options.enableRetry, TRUE),
   context |-> OptionOr(options.context, {}),
   pc |-> "attempt", attempt |-> 1, checked |-> 0, invoked |-> 0,
   history |-> <<>>,
   timer |-> UNDEF, waits |-> <<>>, log |-> <<>>, lastError |-> "",
   returned |-> "", thrown |-> NothingThrown]

handleFileOperation(fileId, operationType, options) ==
  handlePersistenceOperation(<<"File", operationType, fileId>>,
    [options EXCEPT !.context =
       << {<<"fileId", fileId>>, <<"operation", operationType>>} >>])

handleProjectSave(projectId, options) ==
  handlePersistenceOperation(<<"Project", "save", projectId>>,
    [options EXCEPT !.context =
       << {<<"projectId", projectId>>, <<"operation", "save">>} >>])

handleProjectLoad(projectId, options) ==
  handlePersistenceOperation(<<"Project", "load", projectId>>,
    [options EXCEPT !.context =
       << {<<"projectId", projectId>>, <<"operation", "load">>} >>])

\* the error enhanced with the retry context
enhancedError(a, error) ==
  [kind |-> "enhanced", originalError |-> error, attempts |-> a.attempt,
   retryable |-> isRetryableError(error), context |-> a.context,
   operationName |-> a.operationName]

\* a catch block that takes the attempt before the last for the last
giveUpOneEarly(a, error) == a.attempt >= a.maxRetries - 1 \/ ~isRetryableError(error)

\* the catch block: throw when the attempts are used up or the error is
\* not retryable
giveUp(a, error) == a.attempt = a.maxRetries \/ ~isRetryableError(error)

\* a try block that calls operation() without asking isConnected()
tryOperationUnchecked(connected, outcome, notConnected) ==
  [checked |-> 0, invoked |-> 1, error |-> IF outcome = "ok" THEN "" ELSE outcome]

\* the try block of both handlers: if (!isConnected()) throw new
\* Error(notConnected); await operation().  connected: what isConnected()
\* answers; outcome: "ok" or the error that operation() throws; error: what
\* the catch block receives ("" when the try block returns)
tryOperation(connected, outcome, notConnected) ==
  IF ~connected THEN [checked |-> 1, invoked |-> 0, error |-> notConnected]
  ELSE [checked |-> 1, invoked |-> 1, error |-> IF outcome = "ok" THEN "" ELSE outcome]

\* the delay that forgets the - 1 of the exponent
backoffFromTwo(baseDelay, attempt) == baseDelay * 2 ^ attempt

\* const delay = baseDelay * Math.pow(2, attempt - 1)
backoff(baseDelay, attempt) == baseDelay * 2 ^ (attempt - 1)

\* what the attempt met, for the history
Met(connected, outcome) == IF connected THEN outcome ELSE "disconnected"

\* one pass of the loop body up to the return, the throw or the setTimeout.
\* jitter: Math.random() * 1000
attemptOnce(a, connected, outcome, jitter) ==
  LET try == tryOperation(connected, outcome, "ConnectionLost")
      b == [a EXCEPT !.checked = @ + try.checked,
                     !.invoked = @ + try.invoked,
                     !.history = Append(@, Met(connected, outcome))]
  IN IF try.error = ""
     THEN [b EXCEPT !.pc = "returned", !.returned = "value",
                    !.log = IF a.attempt > 1
                            THEN Append(@, [level |-> "log", attempt |-> a.attempt])
                            ELSE @]
     ELSE IF giveUp(a, try.error)
       THEN [b EXCEPT !.lastError = try.error, !.pc = "thrown",
                      !.thrown = enhancedError(a, try.error)]
     ELSE [b EXCEPT !.lastError = try.error, !.pc = "waiting",
                    !.timer = backoff(a.baseDelay, a.attempt) + jitter,
                    !.log = Append(@, [level |-> "warn", attempt |-> a.attempt])]

\* the setTimeout fires and the loop goes to its next pass
afterTimeout(a) ==
  [a EXCEPT !.pc = "attempt", !.attempt = @ + 1,
            !.waits = Append(@, a.timer), !.timer = UNDEF]

\* the loop ends without a pass left: throw lastError
throwLastError(a) ==
  [a EXCEPT !.pc = "thrown",
            !.thrown = [NothingThrown EXCEPT !.kind = "lastError",
                                             !.originalError = a.lastError]]

\* a handleDatabaseOperation whose catch block enhances the error as the
\* retry loop does
handleDatabaseOperationEnhanced(a, connected, outcome) ==
  LET try == tryOperation(connected, outcome, "NotConnected")
      b == [a EXCEPT !.checked = @ + try.checked,
                     !.invoked = @ + try.invoked,
                     !.history = Append(@, Met(connected, outcome))]
  IN IF try.error = ""
     THEN [b EXCEPT !.pc = "returned", !.returned = "value"]
     ELSE [b EXCEPT !.pc = "thrown", !.thrown = enhancedError(a, try.error)]

\* enableRetry false: handleDatabaseOperation(operation, ...), whose catch
\* block logs the error and throws it again
handleDatabaseOperation(a, connected, outcome) ==
  LET try == tryOperation(connected, outcome, "NotConnected")
      b == [a EXCEPT !.checked = @ + try.checked,
                     !.invoked = @ + try.invoked,
                     !.history = Append(@, Met(connected, outcome))]
  IN IF try.error = ""
     THEN [b EXCEPT !.pc = "returned", !.returned = "value"]
     ELSE [b EXCEPT !.pc = "thrown",
                    !.log = Append(@, [level |-> "error", attempt |-> a.attempt]),
                    !.thrown = [NothingThrown EXCEPT !.kind = "original",
                                                     !.originalError = try.error]]

----------------------------------------------------------------------------
(* SpecRetry: one call of handlePersistenceOperation, directly or through  *)
(* a helper, with any options, on an operation and a connection that may   *)
(* fail in any way at each attempt.  last is the activation, together     *)
(* with the function that was called (op) and the options it was given.    *)

Options ==
  [maxRetries : {<<>>} \cup {<<n>> : n \in 0..MaxRetries},
   baseDelay : {<<>>, <<100>>},
   enableRetry : {<<>>, <<FALSE>>},
   context : {<<>>, << {<<"caller", "context">>} >>}]

Entered(op, options, activation) ==
  [op |-> op, options |-> options] @@ activation

InitRetry ==
  /\ \E options \in Options :
       \/ last = Entered("handlePersistenceOperation", options,
                         handlePersistenceOperation(<<"operation">>, options))
       \/ last = Entered("handleFileOperation", options,
                         handleFileOperation("file1", "update", options))
       \/ last = Entered("handleProjectSave", options,
                         handleProjectSave("project1", options))
       \/ last = Entered("handleProjectLoad", options,
                         handleProjectLoad("project1", options))
  /\ projects = {}
  /\ files = <<>>
  /\ blobs = {}
  /\ flat = <<>>
  /\ tree = <<>>

Attempt ==
  /\ last.pc = "attempt"
  /\ last.enableRetry
  /\ last.attempt <= last.maxRetries
  /\ \E connected \in BOOLEAN, outcome \in {"ok"} \cup OperationErrors,
        jitter \in Jitters :
       last' = attemptOnce(last, connected, outcome, jitter)
  /\ UNCHANGED <<projects, files, blobs, flat, tree>>

TimerFires ==
  /\ last.pc = "waiting"
  /\ last' = afterTimeout(last)
  /\ UNCHANGED <<projects, files, blobs, flat, tree>>

LoopEnds ==
  /\ last.pc = "attempt"
  /\ last.enableRetry
  /\ last.attempt > last.maxRetries
  /\ last' = throwLastError(last)
  /\ UNCHANGED <<projects, files, blobs, flat, tree>>

WithoutRetry ==
  /\ last.pc = "attempt"
  /\ ~last.enableRetry
  /\ \E connected \in BOOLEAN, outcome \in {"ok"} \cup OperationErrors :
       last' = handleDatabaseOperation(last, connected, outcome)
  /\ UNCHANGED <<projects, files, blobs, flat, tree>>

NextRetry == Attempt \/ TimerFires \/ LoopEnds \/ WithoutRetry

SpecRetry == InitRetry /\ [][NextRetry]_vars

----------------------------------------------------------------------------
(* utils/fileHierarchy.js: buildFileTree.  The input is an array of        *)
(* documents [id, name, type, parentId]; a node of the result is the       *)
(* document with its array of children.                                    *)

\* String.prototype.localeCompare on names of ASCII letters: the letters
\* decide first, whatever their case (a shorter name before a longer one
\* that starts with it); between names of the same letters the first
\* difference of case decides, lower case first.
Letters == <<"a", "b">>
Capitals == <<"A", "B">>

IsCapital(c) == \E k \in DOMAIN Capitals : Capitals[k] = c

\* the place of the character's letter in the alphabet
Letter(c) ==
  CHOOSE k \in DOMAIN Letters : Letters[k] = c \/ Capitals[k] = c

RECURSIVE comparePrimary(_, _)
comparePrimary(a, b) ==
  IF a = <<>> /\ b = <<>> THEN 0
  ELSE IF a = <<>> THEN -1
  ELSE IF b = <<>> THEN 1
  ELSE IF Letter(Head(a)) < Letter(Head(b)) THEN -1
  ELSE IF Letter(Head(a)) > Letter(Head(b)) THEN 1
  ELSE comparePrimary(Tail(a), Tail(b))

RECURSIVE compareCase(_, _)
compareCase(a, b) ==
  IF a = <<>> \/ b = <<>> THEN 0
  ELSE IF IsCapital(Head(a)) = IsCapital(Head(b)) THEN compareCase(Tail(a), Tail(b))
  ELSE IF IsCapital(Head(b)) THEN -1
  ELSE 1

localeCompare(a, b) ==
  IF comparePrimary(a, b) # 0 THEN comparePrimary(a, b) ELSE compareCase(a, b)

\* the comparator without its test of the types
compareNames(a, b) == localeCompare(a.name, b.name)

\* the comparator of both sort calls: folders first, then by name
compareNodes(a, b) ==
  IF a.type # b.type THEN (IF a.type = "folder" THEN -1 ELSE 1)
  ELSE localeCompare(a.name, b.name)

\* Array.prototype.sort, which is stable: x goes before the first element
\* that the comparator puts after it
RECURSIVE insertSorted(_, _)
insertSorted(sorted, x) ==
  IF sorted = <<>> THEN <<x>>
  ELSE IF compareNodes(x, Head(sorted)) < 0 THEN <<x>> \o sorted
  ELSE <<Head(sorted)>> \o insertSorted(Tail(sorted), x)

RECURSIVE sort(_)
sort(nodes) ==
  IF nodes = <<>> THEN <<>>
  ELSE insertSorted(sort(SubSeq(nodes, 1, Len(nodes) - 1)), nodes[Len(nodes)])

\* second pass: the documents pushed on the children of id, in input order
childrenOf(input, id) ==
  LET isChild(f) == f.parentId # NULL /\ f.parentId = id
  IN SelectSeq(input, isChild)

\* first pass: the documents without parentId, in input order
rootFiles(input) ==
  LET isRoot(f) == f.parentId = NULL
  IN SelectSeq(input, isRoot)

\* the entry of fileMap for a document once sortChildren has visited it
RECURSIVE treeNode(_, _)
treeNode(input, f) ==
  LET kids == childrenOf(input, f.id)
  IN [id |-> f.id, name |-> f.name, type |-> f.type, parentId |-> f.parentId,
      children |-> sort([k \in DOMAIN kids |-> treeNode(input, kids[k])])]

buildFileTree(input) ==
  LET roots == rootFiles(input)
  IN sort([k \in DOMAIN roots |-> treeNode(input, roots[k])])

----------------------------------------------------------------------------
(* Properties of the hierarchy, stated on the store alone.                 *)

ParentOf(fs, x) ==
  IF x \in Stored(fs) /\ fs[x].parentId # NULL THEN {fs[x].parentId} ELSE {}

\* what the parent chain of x reaches in at most n steps (x excluded, unless
\* the chain returns to it)
RECURSIVE AncestorsN(_, _, _)
AncestorsN(fs, x, n) ==
  IF n = 0 THEN {}
  ELSE ParentOf(fs, x) \cup UNION {AncestorsN(fs, p, n - 1) : p \in ParentOf(fs, x)}

Ancestors(fs, x) == AncestorsN(fs, x, Cardinality(Stored(fs)) + 1)

\* I2: no document is its own ancestor
I2(fs) == \A x \in Stored(fs) : x \notin Ancestors(fs, x)

\* the parent chain of x runs into a cycle
ChainLoops(fs, x) ==
  \E y \in (Ancestors(fs, x) \cup {x}) \cap Stored(fs) : y \in Ancestors(fs, y)

\* I3: no two documents share (projectId, parentId, name)
I3(fs) ==
  \A i, j \in Stored(fs) :
    i # j => <<fs[i].projectId, fs[i].parentId, fs[i].name>>
             # <<fs[j].projectId, fs[j].parentId, fs[j].name>>

\* I4: a parentId names a stored folder of the same project
I4(fs) ==
  \A i \in Stored(fs) :
    fs[i].parentId # NULL =>
      /\ fs[i].parentId \in Stored(fs)
      /\ fs[fs[i].parentId].type = "folder"
      /\ fs[fs[i].parentId].projectId = fs[i].projectId

----------------------------------------------------------------------------
(* Claims about the controllers (specification Spec).                      *)

\* C1: after any sequence of completed createFile, updateFile, deleteFile
\* and deleteProject requests no FileNode is its own ancestor.
C1_NoNodeIsItsOwnAncestor == I2(files)

\* C2: after any sequence of completed requests no two stored FileNodes have
\* the same (projectId, parentId, name), also after an updateFile that only
\* changes parentId.
C2_SiblingNamesUnique == I3(files)

\* C3: after any sequence of completed createProject, createFile, updateFile,
\* deleteFile and deleteProject requests every stored FileNode with a
\* non-null parentId references a stored folder of the same project.
C3_ParentIsFolderOfSameProject == I4(files)

\* a folder was deleted and a document nested in another folder remains
C3_Witness ==
  /\ last.op = "deleteFile"
  /\ last.code = "DELETED"
  /\ \E i \in Stored(files) : files[i].parentId # NULL
  /\ Cardinality(projects) = 2

\* C8: a createFile whose (projectId, parentId, name) is that of a stored
\* node, and an updateFile that renames a node to a name another node holds
\* in the node's (new) directory, is answered FILE_EXISTS and changes neither
\* the documents nor the blobs; an updateFile that carries the node's own
\* current name is never answered FILE_EXISTS.
C8_NameConflictRejected ==
  [][ /\ (last'.op \in {"createFile", "updateFile"} /\ last'.taken)
         => (last'.code = "FILE_EXISTS" /\ files' = files /\ blobs' = blobs)
      /\ (last'.op = "updateFile" /\ last'.sameName)
         => last'.code # "FILE_EXISTS" ]_vars

\* a rename into another directory was rejected because the name is taken there
C8_Witness ==
  /\ last.op = "updateFile"
  /\ last.taken
  /\ last.code = "FILE_EXISTS"
  /\ \E i \in Stored(files) : files[i].parentId # NULL

----------------------------------------------------------------------------
(* Claims about validateHierarchyOperation (specification SpecEngine).     *)

Validated == last.op = "validateHierarchyOperation"

\* C4: on a store satisfying I2, for a folder F and a node D of project P,
\* validateMove(F, D, P) fails with the cyclic-move error when D is a proper
\* descendant of F at any depth, and returns ok when D is a folder of P that
\* is neither F nor a descendant of F.
C4_CyclicMoveDetected ==
  (/\ Validated
   /\ I2(files)
   /\ findById(files, last.fileId)
   /\ files[last.fileId].type = "folder"
   /\ findById(files, last.newParentId)
   /\ files[last.newParentId].projectId = last.projectId)
  => /\ last.fileId \in Ancestors(files, last.newParentId)
        => last.ret = CyclicMove
     /\ (/\ files[last.newParentId].type = "folder"
         /\ last.newParentId # last.fileId
         /\ last.fileId \notin Ancestors(files, last.newParentId))
        => last.ret = "ok"

\* the target lies two levels below the folder being moved
C4_Witness ==
  /\ Validated
  /\ I2(files)
  /\ findById(files, last.fileId)
  /\ files[last.fileId].type = "folder"
  /\ findById(files, last.newParentId)
  /\ files[last.newParentId].projectId = last.projectId
  /\ last.fileId \in Ancestors(files, last.newParentId)
  /\ files[last.newParentId].parentId # last.fileId
  /\ last.ret = CyclicMove

\* C5: for every stored folder F of project P, validateMove(F, F, P) fails.
C5_SelfParentRejected ==
  (/\ Validated
   /\ last.newParentId = last.fileId
   /\ findById(files, last.fileId)
   /\ files[last.fileId].type = "folder"
   /\ files[last.fileId].projectId = last.projectId)
  => last.ret # "ok"

\* C6: for every nodeId that is not stored, validateMove(nodeId, newParentId,
\* P) fails with NotFound for every newParentId, null included.
C6_MissingNodeRejected ==
  (Validated /\ ~findById(files, last.fileId)) => last.ret = FileNotFound

\* the target of the move is no stored folder of project P
BadTarget ==
  /\ Validated
  /\ findById(files, last.fileId)
  /\ last.newParentId # NULL
  /\ \/ ~findById(files, last.newParentId)
     \/ files[last.newParentId].type = "file"
     \/ files[last.newParentId].projectId # last.projectId

----------------------------------------------------------------------------
(* SpecTree: buildFileTree called on any array of at most MaxFlat          *)
(* documents with distinct ids.  A parentId is null, the id of a document  *)
(* of the array (possibly its own), or an id outside the array.            *)

FlatIds == 1..MaxFlat
Outside == MaxFlat + 1

TreeNames == {<<"a">>, <<"A">>, <<"B">>}

FlatDoc(id, name, type, parentId) ==
  [id |-> id, name |-> name, type |-> type, parentId |-> parentId]

InitTree ==
  /\ \E S \in SUBSET FlatIds :
       \E o \in Orders(S), nf \in [S -> TreeNames], tf \in [S -> Types],
          parf \in [S -> FlatIds \cup {NULL, Outside}] :
         flat = [k \in 1..Cardinality(S) |-> FlatDoc(o[k], nf[o[k]], tf[o[k]], parf[o[k]])]
  /\ tree = <<>>
  /\ last = NoRequest
  /\ projects = {}
  /\ files = <<>>
  /\ blobs = {}

BuildTree ==
  /\ last = NoRequest
  /\ tree' = buildFileTree(flat)
  /\ last' = [op |-> "buildFileTree"]
  /\ UNCHANGED <<projects, files, blobs, flat>>

NextTree == BuildTree

SpecTree == InitTree /\ [][NextTree]_vars

----------------------------------------------------------------------------
(* Claims about buildFileTree (specification SpecTree).                    *)

Built == last.op = "buildFileTree"

\* the ids of a forest, parents before children
RECURSIVE preorder(_)
preorder(forest) ==
  IF forest = <<>> THEN <<>>
  ELSE <<Head(forest).id>> \o preorder(Head(forest).children) \o preorder(Tail(forest))

\* the pairs <<parent id, child id>> of a forest
RECURSIVE childPairs(_)
childPairs(forest) ==
  IF forest = <<>> THEN {}
  ELSE {<<Head(forest).id, Head(forest).children[k].id>> :
          k \in DOMAIN Head(forest).children}
       \cup childPairs(Head(forest).children) \cup childPairs(Tail(forest))

Range(seq) == {seq[k] : k \in DOMAIN seq}

FlatIdsOf(input) == {input[k].id : k \in DOMAIN input}

\* C9: the forest has as many nodes as the input, each input node once; a
\* node is a child of X exactly when its parentId is X and X is in the input,
\* and a root exactly when its parentId is null or names no input node.
C9_ForestCoversInput ==
  Built =>
    /\ Len(preorder(tree)) = Len(flat)
    /\ Range(preorder(tree)) = FlatIdsOf(flat)
    /\ childPairs(tree)
         = {<<flat[k].parentId, flat[k].id>> :
              k \in {j \in DOMAIN flat : flat[j].parentId \in FlatIdsOf(flat)}}
    /\ {tree[k].id : k \in DOMAIN tree}
         = {flat[k].id :
              k \in {j \in DOMAIN flat : flat[j].parentId \notin FlatIdsOf(flat)}}

\* the name with every capital replaced by its lower-case letter, as the
\* places of its letters in the alphabet
Folded(name) == [k \in DOMAIN name |-> Letter(name[k])]

RECURSIVE LexLeq(_, _)
LexLeq(a, b) ==
  IF a = <<>> THEN TRUE
  ELSE IF b = <<>> THEN FALSE
  ELSE IF Head(a) # Head(b) THEN Head(a) < Head(b)
  ELSE LexLeq(Tail(a), Tail(b))

\* folders before files, and names of one type in ascending order, case ignored
Ordered(siblings) ==
  \A i, j \in DOMAIN siblings :
    i < j =>
      /\ siblings[i].type = "file" => siblings[j].type = "file"
      /\ siblings[i].type = siblings[j].type
         => LexLeq(Folded(siblings[i].name), Folded(siblings[j].name))

RECURSIVE OrderedAtEveryDepth(_)
OrderedAtEveryDepth(forest) ==
  /\ Ordered(forest)
  /\ \A k \in DOMAIN forest : OrderedAtEveryDepth(forest[k].children)

DistinctSiblingNames(input) ==
  \A i, j \in DOMAIN input :
    (i # j /\ input[i].parentId = input[j].parentId) => input[i].name # input[j].name

Reorderings(input) ==
  {[k \in DOMAIN input |-> input[o[k]]] : o \in Orders(DOMAIN input)}

\* C10: the root list and every child list have all folders before all files
\* and, within one type, names in ascending case-insensitive order; when
\* sibling names are distinct every permutation of the input gives the same
\* forest.
C10_SiblingsOrdered ==
  Built =>
    /\ OrderedAtEveryDepth(tree)
    /\ DistinctSiblingNames(flat)
       => \A input \in Reorderings(flat) : buildFileTree(input) = tree

\* below a root, a file named "a", then one named "B", arrived in the other
\* order after a file that a folder had to overtake
C10_Witness ==
  /\ Built
  /\ Len(flat) = 3
  /\ flat[2].name = <<"B">>
  /\ flat[3].name = <<"a">>
  /\ \E k \in DOMAIN tree :
       /\ Len(tree[k].children) = 2
       /\ tree[k].children[1].name = <<"a">>
       /\ tree[k].children[2].name = <<"B">>
       /\ tree[k].children[1].type = tree[k].children[2].type

----------------------------------------------------------------------------
(* Claims about the traversal utilities (specification SpecEngine).        *)

\* the stored documents that have a on their parent chain
Descendants(fs, a) == {x \in Stored(fs) : a \in Ancestors(fs, x)}

\* no stored document has a stored file as its parent (I4 implies it)
FilesAreLeaves(fs) ==
  \A i \in Stored(fs) :
    fs[i].parentId \in Stored(fs) => fs[fs[i].parentId].type = "folder"

IsDescendantAsked == last.op = "isFileDescendant"

\* C11: on a store satisfying I2, isDescendant(c, a) is true exactly when a
\* is on the parent chain of c strictly above c: true when c.parentId = a,
\* true for deeper ancestors, false for isDescendant(A, A), false when c is
\* not stored or has a null parent.
C11_TrueExactlyForProperAncestors ==
  (IsDescendantAsked /\ I2(files)) =>
    /\ last.ret = IF last.ancestorId \in Ancestors(files, last.fileId)
                  THEN "true" ELSE "false"
    /\ (findById(files, last.fileId) /\ files[last.fileId].parentId = last.ancestorId)
       => last.ret = "true"
    /\ last.fileId = last.ancestorId => last.ret = "false"
    /\ (~findById(files, last.fileId) \/ files[last.fileId].parentId = NULL)
       => last.ret = "false"

\* the ancestor asked for is not the parent of c but lies further up
C11_Witness ==
  /\ IsDescendantAsked
  /\ I2(files)
  /\ findById(files, last.fileId)
  /\ files[last.fileId].parentId # last.ancestorId
  /\ last.ancestorId \in Ancestors(files, last.fileId)
  /\ last.ret = "true"

\* C12: isDescendant(c, a) returns on every store contents, also when the
\* parent chain of c runs into a cycle that does not contain a.
C12_IsDescendantTerminates == IsDescendantAsked => last.ret # "diverge"

DescendantsAsked == last.op = "getAllDescendants"

\* the array is the proper descendants of folderId, each once, every
\* document after its parent when the parent is in the array too
ProperDescendantsParentFirst(fs, folderId, ret) ==
  /\ ~ret.diverges
  /\ Range(ret.value) = Descendants(fs, folderId)
  /\ Len(ret.value) = Cardinality(Descendants(fs, folderId))
  /\ \A i, j \in DOMAIN ret.value :
       fs[ret.value[j]].parentId = ret.value[i] => i < j

\* C13 as stated: on every store satisfying I2, getAllDescendants(F) returns
\* exactly the proper descendants of F, each once, parents first.
C13_AllProperDescendants ==
  (DescendantsAsked /\ I2(files))
  => ProperDescendantsParentFirst(files, last.folderId, last.ret)

\* C13 amended: on a store satisfying I2 in which no file has children,
\* getAllDescendants(F) returns exactly the proper descendants of F, each
\* once, parents first.
C13_DescendantsBelowFolders ==
  (DescendantsAsked /\ I2(files) /\ FilesAreLeaves(files))
  => ProperDescendantsParentFirst(files, last.folderId, last.ret)

\* a stored folder with a folder below it and a document below that one
C13_Witness ==
  /\ DescendantsAsked
  /\ I2(files)
  /\ FilesAreLeaves(files)
  /\ findById(files, last.folderId)
  /\ Len(last.ret.value) = 2
  /\ files[last.ret.value[2]].parentId = last.ret.value[1]

\* C14: getAllDescendants(F) for an id F that is not stored fails with
\* NotFound and returns no array.
C14_MissingFolderNotFound ==
  (DescendantsAsked /\ ~findById(files, last.folderId))
  => last.ret.thrown = "NotFound"

SizeAsked == last.op = "calculateFolderSize"

RECURSIVE SumOfSizes(_, _)
SumOfSizes(fs, S) ==
  IF S = {} THEN 0
  ELSE LET x == CHOOSE y \in S : TRUE
       IN fs[x].size + SumOfSizes(fs, S \ {x})

\* the sum of size over the proper descendants of folderId of type file
FileSizesBelow(fs, folderId) ==
  SumOfSizes(fs, {x \in Descendants(fs, folderId) : fs[x].type = "file"})

\* C15 as stated: on every store satisfying I2, calculateFolderSize(F) is the
\* sum of size over all proper descendants of F of type file.
C15_SumOfAllFilesBelow ==
  (SizeAsked /\ I2(files))
  => /\ ~last.ret.diverges
     /\ last.ret.value = FileSizesBelow(files, last.folderId)

\* C15 amended: on a store satisfying I2 in which no file has children,
\* calculateFolderSize(F) is the sum of size over all proper descendants of
\* F of type file at any depth; folders add nothing, whatever their size
\* field, and a folder with no file below it gives 0.
C15_SumOfFilesBelowFolders ==
  (SizeAsked /\ I2(files) /\ FilesAreLeaves(files))
  => /\ ~last.ret.diverges
     /\ last.ret.value = FileSizesBelow(files, last.folderId)
     /\ Descendants(files, last.folderId) = {} => last.ret.value = 0

\* the folder holds a folder and, inside that one, a file: the sum is the
\* size of the nested file alone
C15_Witness ==
  /\ SizeAsked
  /\ I2(files)
  /\ FilesAreLeaves(files)
  /\ findById(files, last.folderId)
  /\ \E d, f \in Stored(files) :
       /\ files[d].type = "folder"
       /\ files[d].parentId = last.folderId
       /\ files[f].type = "file"
       /\ files[f].parentId = d
       /\ last.ret.value = files[f].size

PathAsked == last.op = "getFilePath"

\* the names from the root down to document n, joined with '/'
RECURSIVE PathFromRoot(_, _)
PathFromRoot(fs, n) ==
  IF fs[n].parentId = NULL THEN fs[n].name
  ELSE PathFromRoot(fs, fs[n].parentId) \o <<"/">> \o fs[n].name

\* C16: on a store satisfying I2 and I4, getFilePath(n) of a stored n is the
\* names on the parent chain of n joined with '/' from the root down to n's
\* own name, and exactly n.name when n.parentId is null.
C16_PathFromRootToNode ==
  (PathAsked /\ I2(files) /\ I4(files) /\ findById(files, last.fileId))
  => /\ ~last.ret.diverges
     /\ last.ret.value = PathFromRoot(files, last.fileId)
     /\ files[last.fileId].parentId = NULL
        => last.ret.value = files[last.fileId].name

\* the path of a document two folders deep
C16_Witness ==
  /\ PathAsked
  /\ I2(files)
  /\ I4(files)
  /\ findById(files, last.fileId)
  /\ files[last.fileId].parentId # NULL
  /\ files[files[last.fileId].parentId].parentId # NULL
  /\ Len(last.ret.value) = 8

----------------------------------------------------------------------------
(* Claims about checkNamingConflict and generateUniqueName (specification  *)
(* SpecNames).                                                             *)

\* the directory a call names: the root when parentId is null or not given
DirOf(parentId) == IF parentId = UNDEF THEN NULL ELSE parentId

\* the stored documents other than excludeId with this project, directory
\* and exact name
Conflicting(fs, projectId, dir, name, excludeId) ==
  {i \in Stored(fs) \ {excludeId} :
     <<fs[i].projectId, fs[i].parentId, fs[i].name>> = <<projectId, dir, name>>}

ConflictAsked == last.op = "checkNamingConflict"

\* C17: checkNamingConflict(projectId, name, parentId, excludeId) is true
\* exactly when a stored node other than excludeId has that projectId, that
\* parentId (null for the root) and that exact name; the node passed as
\* excludeId never conflicts with itself, and a node of the same name in
\* another directory or another project does not count.
C17_ConflictExactlyForOtherSibling ==
  ConflictAsked =>
    /\ last.ret = (Conflicting(files, last.projectId, DirOf(last.parentId),
                               last.name, last.excludeId) # {})
    /\ (\A i \in Stored(files) :
          \/ i = last.excludeId
          \/ files[i].projectId # last.projectId
          \/ files[i].parentId # DirOf(last.parentId)
          \/ files[i].name # last.name)
       => ~last.ret

\* the node passed as excludeId holds the name in the directory asked about,
\* a second node holds it in another directory and a third in another
\* project: no conflict
C17_Witness ==
  /\ ConflictAsked
  /\ ~last.ret
  /\ \E i, j, k \in Stored(files) :
       /\ i = last.excludeId
       /\ files[i].name = last.name /\ files[j].name = last.name
       /\ files[k].name = last.name
       /\ files[i].projectId = last.projectId /\ files[j].projectId = last.projectId
       /\ files[k].projectId # last.projectId
       /\ files[i].parentId = DirOf(last.parentId)
       /\ files[j].parentId # DirOf(last.parentId)
       /\ files[k].parentId = DirOf(last.parentId)

UniqueNameAsked == last.op = "generateUniqueName"

\* where the extension of base starts: at its last '.', or past its end
ExtensionStart(base) ==
  IF \E k \in DOMAIN base : base[k] = "."
  THEN CHOOSE k \in DOMAIN base :
         base[k] = "." /\ \A j \in (k + 1)..Len(base) : base[j] # "."
  ELSE Len(base) + 1

\* '{stem} ({n}){extension}' for n up to 9
Numbered(base, n) ==
  SubSeq(base, 1, ExtensionStart(base) - 1) \o <<" ", "(", Digit[n], ")">>
    \o SubSeq(base, ExtensionStart(base), Len(base))

\* C18: generateUniqueName(P, base, parent) returns base when base has no
\* conflict, else '{stem} ({n}){extension}', split on the last '.' of base,
\* for the smallest n >= 1 whose name has no conflict; the returned name has
\* no conflict, and the loop makes at most N + 1 conflict checks when N
\* siblings hold base or one of the numbered names.
C18_SmallestFreeNumberedName ==
  UniqueNameAsked =>
    LET taken(name) == Conflicting(files, last.projectId, DirOf(last.parentId),
                                   name, last.excludeId) # {}
        tries == 1..(Cardinality(Stored(files)) + 1)
        N == Cardinality(UNION (
               {Conflicting(files, last.projectId, DirOf(last.parentId),
                            last.name, last.excludeId)}
               \cup {Conflicting(files, last.projectId, DirOf(last.parentId),
                                 Numbered(last.name, n), last.excludeId) : n \in tries}))
    IN /\ ~taken(last.name) => last.ret.name = last.name
       /\ taken(last.name) =>
            \E n \in tries :
              /\ last.ret.name = Numbered(last.name, n)
              /\ \A k \in 1..(n - 1) : taken(Numbered(last.name, k))
       /\ ~taken(last.ret.name)
       /\ last.ret.checks <= N + 1

\* App.js and App (1).js are taken: the third check finds App (2).js free
C18_Witness ==
  /\ UniqueNameAsked
  /\ last.name = AppJs
  /\ last.ret.name = <<"A", "p", "p", " ", "(", "2", ")", ".", "j", "s">>
  /\ last.ret.checks = 3

----------------------------------------------------------------------------
(* Claims about handlePersistenceOperation (specification SpecRetry).      *)

Finished == last.pc \in {"returned", "thrown"}

\* the call was made with no option given, so that every default applies
DefaultOptions ==
  /\ last.options.maxRetries = <<>>
  /\ last.options.baseDelay = <<>>
  /\ last.options.enableRetry = <<>>

\* the store was connected at every attempt made so far
AlwaysConnected == \A k \in DOMAIN last.history : last.history[k] # "disconnected"

\* operation() threw at attempt k, and the error is retryable (is not)
FailedRetryable(k) ==
  /\ k \in DOMAIN last.history
  /\ last.history[k] \in OperationErrors
  /\ isRetryableError(last.history[k])

FailedFatal(k) ==
  /\ k \in DOMAIN last.history
  /\ last.history[k] \in OperationErrors
  /\ ~isRetryableError(last.history[k])

\* whatever was invoked so far went as with an operation that throws a
\* retryable error at its first two invocations and returns at its third
FailsTwiceThenSucceeds ==
  \A k \in DOMAIN last.history :
    IF k <= 2 THEN FailedRetryable(k) ELSE last.history[k] = "ok"

\* C19: with default options, an operation that fails twice with a
\* retryable error and then succeeds is invoked exactly three times, its
\* value is returned and the success is logged with attempt 3; an operation
\* that fails with a fatal error is invoked exactly once and the call throws
\* without waiting or retrying.
C19_ThirdAttemptSucceedsFatalStops ==
  (Finished /\ DefaultOptions /\ AlwaysConnected) =>
    /\ FailsTwiceThenSucceeds
       => /\ last.pc = "returned"
          /\ last.returned = "value"
          /\ last.invoked = 3
          /\ last.attempt = 3
          /\ [level |-> "log", attempt |-> 3] \in Range(last.log)
    /\ FailedFatal(1)
       => /\ last.pc = "thrown"
          /\ last.invoked = 1
          /\ Len(last.history) = 1
          /\ last.waits = <<>>
          /\ last.timer = UNDEF

\* two retryable failures, two waits, then the value
C19_Witness ==
  /\ Finished
  /\ DefaultOptions
  /\ AlwaysConnected
  /\ FailedRetryable(1)
  /\ FailedRetryable(2)
  /\ last.pc = "returned"
  /\ last.invoked = 3
  /\ Len(last.waits) = 2

\* the context the caller supplied: options.context (or the empty object)
\* on a direct call, the entity and the operation named in the arguments of
\* a helper
SuppliedContext ==
  CASE last.op = "handlePersistenceOperation" -> OptionOr(last.options.context, {})
    [] last.op = "handleFileOperation" ->
         {<<"fileId", last.operationName[3]>>, <<"operation", last.operationName[2]>>}
    [] OTHER ->
         {<<"projectId", last.operationName[3]>>, <<"operation", last.operationName[2]>>}

\* every attempt made failed with a retryable error (a lost connection is one)
EveryAttemptFailedRetryable ==
  \A k \in DOMAIN last.history :
    \/ last.history[k] = "disconnected"
    \/ FailedRetryable(k)

\* C20: for every maxRetries the call makes at most maxRetries attempts and
\* then stops; when every attempt fails with a retryable error it throws an
\* enriched failure with attempts = maxRetries, retryable true,
\* originalError the error of the last attempt and context the context the
\* caller supplied, also through the helpers.
C20_AttemptsCappedFailureEnriched ==
  last.enableRetry =>
    /\ Len(last.history) <= last.maxRetries
    /\ last.invoked <= last.maxRetries
    /\ (Finished /\ EveryAttemptFailedRetryable)
       => /\ last.pc = "thrown"
          /\ last.thrown.kind = "enhanced"
          /\ last.thrown.attempts = last.maxRetries
          /\ last.thrown.retryable
          /\ last.thrown.originalError = last.lastError
          /\ last.thrown.context = SuppliedContext

\* C21: an error of code 11000 thrown by the operation is fatal: the
\* operation is not attempted again, and the call throws after exactly one
\* attempt with the retryable flag false.
C21_DuplicateKeyIsFatal ==
  (/\ last.enableRetry
   /\ Len(last.history) >= 1
   /\ last.history[1] = "DuplicateKey")
  => /\ last.pc = "thrown"
     /\ Len(last.history) = 1
     /\ last.invoked = 1
     /\ last.thrown.attempts = 1
     /\ ~last.thrown.retryable

\* the attempts so far at which isConnected() answered false
Disconnected == {k \in DOMAIN last.history : last.history[k] = "disconnected"}

\* C27: isConnected() is evaluated once before every attempt and the
\* operation is invoked at no attempt that finds the store disconnected; a
\* store that stays disconnected gives a failure after maxRetries attempts
\* with no invocation of the operation.
C27_NoInvocationWhileDisconnected ==
  /\ last.checked = Len(last.history)
  /\ last.invoked = Len(last.history) - Cardinality(Disconnected)
  /\ (last.enableRetry /\ Finished /\ Disconnected = DOMAIN last.history)
     => /\ last.pc = "thrown"
        /\ Len(last.history) = last.maxRetries
        /\ last.invoked = 0

\* three attempts, the store disconnected at each: the call throws, the
\* operation was never invoked
C27_Witness ==
  /\ last.enableRetry
  /\ Finished
  /\ Len(last.history) = 3
  /\ Disconnected = DOMAIN last.history
  /\ last.pc = "thrown"
  /\ last.invoked = 0
  /\ last.checked = 3

\* d is a delay the code may wait after failed attempt k
DelayAfter(k, d) ==
  /\ last.baseDelay * 2 ^ (k - 1) <= d
  /\ d < last.baseDelay * 2 ^ (k - 1) + 1000

\* C29: after a failed retryable attempt k with 1 <= k < maxRetries the call
\* waits a delay d with baseDelay * 2^(k-1) <= d < baseDelay * 2^(k-1) + 1000
\* before attempt k + 1; no wait follows the last attempt or a fatal error.
C29_BackoffDoublesPlusJitter ==
  last.enableRetry =>
    /\ \A k \in DOMAIN last.waits : DelayAfter(k, last.waits[k])
    /\ last.pc = "attempt" => Len(last.waits) = Len(last.history)
    /\ last.pc = "waiting"
       => /\ DelayAfter(last.attempt, last.timer)
          /\ last.attempt = Len(last.history)
          /\ last.attempt < last.maxRetries
          /\ Len(last.waits) = last.attempt - 1
          /\ \/ last.history[last.attempt] = "disconnected"
             \/ FailedRetryable(last.attempt)
    /\ (\E k \in DOMAIN last.history :
          FailedRetryable(k) /\ k < last.maxRetries /\ last.attempt = k)
       => last.pc = "waiting"
    /\ Finished
       => /\ last.timer = UNDEF
          /\ Len(last.waits) = Len(last.history) - 1 \/ last.history = <<>>

\* the second wait of a call with baseDelay 100 was the longest one allowed
C29_Witness ==
  /\ last.enableRetry
  /\ last.baseDelay = 100
  /\ Len(last.waits) = 2
  /\ last.waits[1] = 100
  /\ last.waits[2] = 1199
  /\ Finished

\* C30: with enableRetry false the call makes exactly one attempt whatever
\* maxRetries and the error are: it asks isConnected() once, does not invoke
\* the operation when disconnected, and on failure throws the original error
\* with no attempts, retryable or context added.
C30_NoRetryRethrowsOriginal ==
  (~last.enableRetry /\ Finished) =>
    /\ Len(last.history) = 1
    /\ last.checked = 1
    /\ last.waits = <<>>
    /\ last.timer = UNDEF
    /\ last.history[1] = "disconnected" => last.invoked = 0
    /\ last.history[1] # "disconnected" => last.invoked = 1
    /\ last.history[1] = "ok" <=> last.pc = "returned"
    /\ last.pc = "thrown"
       => last.thrown =
            [NothingThrown EXCEPT
               !.kind = "original",
               !.originalError = IF last.history[1] = "disconnected"
                                 THEN "NotConnected" ELSE last.history[1]]

\* retry switched off, maxRetries 3, a retryable error: thrown at once as it is
C30_Witness ==
  /\ ~last.enableRetry
  /\ last.maxRetries = 3
  /\ Finished
  /\ FailedRetryable(1)
  /\ last.thrown.kind = "original"
  /\ last.context # {}

----------------------------------------------------------------------------
(* Claims about the deleting controllers (specification Spec).             *)

Subtree(fs, id) == {id} \cup Descendants(fs, id)

\* the step is a completed deleteFile on the folder id of a store without cycle
DeletesFolder(id, s3gone) ==
  /\ last'.op = "deleteFile"
  /\ last'.code = "DELETED"
  /\ id \in Stored(files)
  /\ files[id].type = "folder"
  /\ I2(files)
  /\ deleteFile(id, s3gone)

\* C23 as stated: on a store satisfying I2 a successful deleteFile on folder
\* F removes exactly F and its proper descendants from the record store and
\* the blob of every descendant file from the blob store, and leaves every
\* other record and blob unchanged.
C23_SubtreeAndItsBlobsRemoved ==
  [][ \A id \in Ids, s3gone \in SUBSET Ids :
        DeletesFolder(id, s3gone)
        => /\ files' = [i \in Stored(files) \ Subtree(files, id) |-> files[i]]
           /\ blobs' = blobs \ S3Keys(files, Descendants(files, id)) ]_vars

\* C23 (amended): on a store satisfying I2 a successful deleteFile on folder
\* F removes exactly F and its proper descendants from the record store and
\* leaves every record and blob outside the subtree unchanged; it removes the
\* blob of every descendant file unless the blob store fails to delete some of
\* the keys it is handed.
C23_SubtreeRemovedBlobsUnlessS3Fails ==
  [][ \A id \in Ids, s3gone \in SUBSET Ids :
        DeletesFolder(id, s3gone)
        => LET keys == S3Keys(files, Descendants(files, id))
           IN /\ files' = [i \in Stored(files) \ Subtree(files, id) |-> files[i]]
              /\ blobs' \ keys = blobs \ keys
              /\ projects' = projects
              /\ ~last'.s3Failed => blobs' \cap keys = {} ]_vars

\* a folder went with its two descendants and their blobs
C23_Witness ==
  /\ last.op = "deleteFile"
  /\ last.code = "DELETED"
  /\ last.deletedFiles = 3
  /\ ~last.s3Failed
  /\ files = <<>>
  /\ blobs = {}

\* C24 as stated: a successful deleteProject(P) leaves no document of P, no
\* blob of a document of P and no project P, and changes nothing of another
\* project; on a project that does not exist it fails with PROJECT_NOT_FOUND
\* and changes nothing.
C24_ProjectAndItsBlobsRemoved ==
  [][ \A id \in ProjIds, s3gone \in SUBSET Ids :
        (last'.op = "deleteProject" /\ deleteProject(id, s3gone))
        => IF id \in projects
           THEN /\ last'.code = "DELETED"
                /\ projects' = projects \ {id}
                /\ files' = [i \in {j \in Stored(files) : files[j].projectId # id}
                               |-> files[i]]
                /\ blobs' = blobs \ {files[j].s3Key :
                                       j \in {i \in Stored(files) :
                                                files[i].projectId = id}}
           ELSE /\ last'.code = "PROJECT_NOT_FOUND"
                /\ UNCHANGED <<projects, files, blobs>> ]_vars

\* C24 (amended): a successful deleteProject(P) leaves no document of P and
\* no project P, and changes no document, blob or project of another
\* project; it leaves no blob of a document of P unless the blob store
\* fails to delete some of the keys it is handed; on a project that does not
\* exist it fails with PROJECT_NOT_FOUND and changes nothing.
C24_ProjectRemovedBlobsUnlessS3Fails ==
  [][ \A id \in ProjIds, s3gone \in SUBSET Ids :
        (last'.op = "deleteProject" /\ deleteProject(id, s3gone))
        => IF id \in projects
           THEN LET keys == {files[j].s3Key :
                               j \in {i \in Stored(files) : files[i].projectId = id}}
                IN /\ last'.code = "DELETED"
                   /\ projects' = projects \ {id}
                   /\ files' = [i \in {j \in Stored(files) : files[j].projectId # id}
                                  |-> files[i]]
                   /\ blobs' \ keys = blobs \ keys
                   /\ ~last'.s3Failed => blobs' \cap keys = {}
           ELSE /\ last'.code = "PROJECT_NOT_FOUND"
                /\ UNCHANGED <<projects, files, blobs>> ]_vars

\* a project went with its three documents and their blobs, and the other
\* project is still there
C24_Witness ==
  /\ last.op = "deleteProject"
  /\ last.code = "DELETED"
  /\ last.deletedFiles = 3
  /\ ~last.s3Failed
  /\ Cardinality(projects) = 1
  /\ files = <<>>
  /\ blobs = {}

\* C25: a deleteFile on a folder, and a deleteProject, whose blob deletion
\* fails still deletes every child record and the folder (project) record and
\* answers with success.
C25_CleanupGoesOnWhenS3Fails ==
  [][ (last'.op \in {"deleteFile", "deleteProject"} /\ last'.s3Failed)
      => /\ last'.code = "DELETED"
         /\ \A id \in Stored(files), s3gone \in SUBSET Ids :
              (files[id].type = "folder" /\ deleteFile(id, s3gone))
              => Stored(files') = Stored(files) \ Subtree(files, id)
         /\ \A id \in ProjIds, s3gone \in SUBSET Ids :
              deleteProject(id, s3gone)
              => /\ id \notin projects'
                 /\ \A i \in Stored(files') : files'[i].projectId # id ]_vars

\* a folder and its child were deleted, and the child's blob is still there
C25_Witness ==
  /\ last.op = "deleteFile"
  /\ last.code = "DELETED"
  /\ last.s3Failed
  /\ last.deletedFiles = 2
  /\ files = <<>>
  /\ blobs # {}

\* C22: every write to the record store, and every existence check before
\* it, that a controller issues is executed inside handlePersistenceOperation.
C22_WritesInsideWithRetry ==
  last.code \in {"CREATED", "UPDATED", "DELETED"}
  => /\ writeWrapper(last.op) = "handlePersistenceOperation"
     /\ checkWrappers(last.op) \subseteq {"handlePersistenceOperation"}

----------------------------------------------------------------------------
(* SpecDelete: one fileController.deleteFile request taken one call at a   *)
(* time, on any store of one project in which no file has children.  last  *)
(* is the request: pc the call it is at, type the type of the document it  *)
(* found, childIds and s3Keys the arrays it collected, steps the calls it  *)
(* has made, deleted the documents it has deleted, code its response.  A   *)
(* call to the record store may fail, which ends the request in the catch  *)
(* block; the process may stop between any two calls (pc = "crashed").     *)

\* the order in which the folder record goes before the records below it
afterFolderFirst(step) ==
  CASE step = "findById" -> "findAllChildren"
    [] step = "findAllChildren" -> "deleteFiles"
    [] step = "deleteFiles" -> "findByIdAndDelete"
    [] step = "findByIdAndDelete" -> "deleteMany"
    [] step = "deleteMany" -> "respond"

\* deleteFile: the call that follows each call
after(step) ==
  CASE step = "findById" -> "findAllChildren"
    [] step = "findAllChildren" -> "deleteFiles"
    [] step = "deleteFiles" -> "deleteMany"
    [] step = "deleteMany" -> "findByIdAndDelete"
    [] step = "findByIdAndDelete" -> "respond"

DeleteRequest(id) ==
  [op |-> "deleteFile", id |-> id, pc |-> "findById", type |-> "none",
   childIds |-> {}, s3Keys |-> {}, steps |-> <<>>, deleted |-> {},
   code |-> "none"]

\* the catch block of deleteFile
deleteFailed(request, code) == [request EXCEPT !.pc = "done", !.code = code]

InitDelete ==
  /\ \E S \in SUBSET NodeIds :
       \E tf \in [S -> Types], parf \in [S -> NodeIds \cup {NULL}] :
         /\ files = [i \in S |-> NodeDoc(i, 1, tf[i], parf[i])]
         /\ \A i \in S : parf[i] \in S => tf[parf[i]] = "folder"
         /\ blobs = {i \in S : tf[i] = "file"}
  /\ projects = {1}
  /\ \E id \in NodeIds : last = DeleteRequest(id)
  /\ flat = <<>>
  /\ tree = <<>>

\* lines 398-407
DeleteFindById ==
  /\ last.pc = "findById"
  /\ \E answers \in BOOLEAN :
       last' = IF ~answers THEN deleteFailed(last, "DELETE_FILE_FAILED")
               ELSE IF ~findById(files, last.id)
                 THEN deleteFailed(last, "FILE_NOT_FOUND")
               ELSE [last EXCEPT !.pc = after(@), !.type = files[last.id].type]
  /\ UNCHANGED <<projects, files, blobs, flat, tree>>

\* lines 412-428
DeleteFindAllChildren ==
  /\ last.pc = "findAllChildren"
  /\ IF last.type = "folder"
     THEN /\ ~findAllChildren(files, last.id).diverges
          /\ \E answers \in BOOLEAN :
               last' = IF ~answers THEN deleteFailed(last, "DELETE_FILE_FAILED")
                       ELSE [last EXCEPT
                               !.pc = after(@),
                               !.childIds = findAllChildren(files, last.id).ids,
                               !.s3Keys = S3Keys(files, findAllChildren(files, last.id).ids),
                               !.steps = Append(@, "findAllChildren")]
     ELSE last' = [last EXCEPT !.pc = after(@),
                               !.s3Keys = S3Keys(files, {last.id})]
  /\ UNCHANGED <<projects, files, blobs, flat, tree>>

\* lines 430-437
DeleteS3Files ==
  /\ last.pc = "deleteFiles"
  /\ IF last.s3Keys # {}
     THEN \E s3gone \in SUBSET last.s3Keys :
            /\ blobs' = blobs \ s3gone
            /\ last' = [last EXCEPT !.pc = after(@),
                                    !.steps = Append(@, "deleteFiles")]
     ELSE /\ last' = [last EXCEPT !.pc = after(@)]
          /\ UNCHANGED blobs
  /\ UNCHANGED <<projects, files, flat, tree>>

\* lines 439-448
DeleteMany ==
  /\ last.pc = "deleteMany"
  /\ IF last.type = "folder" /\ last.childIds # {}
     THEN \E answers \in BOOLEAN :
            IF answers
            THEN /\ files' = Remove(files, last.childIds)
                 /\ last' = [last EXCEPT !.pc = after(@),
                                         !.deleted = @ \cup last.childIds,
                                         !.steps = Append(@, "deleteMany")]
            ELSE /\ last' = deleteFailed(last, "DELETE_FILE_FAILED")
                 /\ UNCHANGED files
     ELSE /\ last' = [last EXCEPT !.pc = after(@)]
          /\ UNCHANGED files
  /\ UNCHANGED <<projects, blobs, flat, tree>>

\* lines 450-453
DeleteFindByIdAndDelete ==
  /\ last.pc = "findByIdAndDelete"
  /\ \E answers \in BOOLEAN :
       IF answers
       THEN /\ files' = Remove(files, {last.id})
            /\ last' = [last EXCEPT !.pc = after(@),
                                    !.deleted = @ \cup {last.id},
                                    !.steps = Append(@, "findByIdAndDelete")]
       ELSE /\ last' = deleteFailed(last, "DELETE_FILE_FAILED")
            /\ UNCHANGED files
  /\ UNCHANGED <<projects, blobs, flat, tree>>

\* lines 455-462
DeleteRespond ==
  /\ last.pc = "respond"
  /\ last' = [last EXCEPT !.pc = "done", !.code = "DELETED"]
  /\ UNCHANGED <<projects, files, blobs, flat, tree>>

\* the process stops before the call it is at
DeleteCrash ==
  /\ last.pc \notin {"done", "crashed"}
  /\ last' = [last EXCEPT !.pc = "crashed"]
  /\ UNCHANGED <<projects, files, blobs, flat, tree>>

NextDelete ==
  \/ DeleteFindById
  \/ DeleteFindAllChildren
  \/ DeleteS3Files
  \/ DeleteMany
  \/ DeleteFindByIdAndDelete
  \/ DeleteRespond
  \/ DeleteCrash

SpecDelete == InitDelete /\ [][NextDelete]_vars

Rank(step) ==
  CASE step = "findAllChildren" -> 1
    [] step = "deleteFiles" -> 2
    [] step = "deleteMany" -> 3
    [] step = "findByIdAndDelete" -> 4

\* C28: the calls of one deleteFile on a folder come in the order enumerate,
\* delete blobs, delete the descendant records, delete the folder record, and
\* at every point between them, a stop of the process included, no stored
\* record has a parent that the request has deleted.
C28_ChildrenGoBeforeTheFolder ==
  /\ \A i, j \in DOMAIN last.steps : i < j => Rank(last.steps[i]) < Rank(last.steps[j])
  /\ last.id \in last.deleted => Subtree(files, last.id) \cap Stored(files) = {}
  /\ \A i \in Stored(files) : files[i].parentId \notin last.deleted

\* the process stopped after the deleteMany of a folder and a file in it;
\* the folder asked for is still stored
C28_Witness ==
  /\ last.pc = "crashed"
  /\ last.steps = <<"findAllChildren", "deleteFiles", "deleteMany">>
  /\ Cardinality(last.deleted) = 2
  /\ \E i \in last.deleted : i \in last.s3Keys
  /\ \E i \in last.deleted : i \notin last.s3Keys
  /\ last.id \in Stored(files)

----------------------------------------------------------------------------
(* SpecRace: two requests, each an updateFile or a createFile on the same  *)
(* project, served together: the scheduler runs one awaited query of one   *)
(* request at a time.  The store starts with up to MaxRaceDocs documents,  *)
(* no two with the same (projectId, parentId, name), every parent a stored *)
(* folder.  last[r] is request r: its arguments, pc the query it is at,    *)
(* fileMetadata the document its findById returned, checked whether its    *)
(* naming-conflict query ran and found nothing, code its response.         *)
(* createFile's lookup of the project, which no request here changes, is   *)
(* part of its first step.                                                 *)

MaxRaceDocs == 2

RaceIds == 1..MaxRaceDocs

Requests == {1, 2}

NoDoc == Doc(NULL, NoName, "none", NULL, NULL, 0)

\* the _id that the create of request r generates
NewId(r) == MaxRaceDocs + r

UpdateFileRequest(id, name, parentId) ==
  [op |-> "updateFile", id |-> id, name |-> name, parentId |-> parentId,
   type |-> "none", pc |-> "findById", fileMetadata |-> NoDoc,
   checked |-> FALSE, code |-> "none"]

CreateFileRequest(id, name, type, parentId) ==
  [op |-> "createFile", id |-> id, name |-> name, parentId |-> parentId,
   type |-> type, pc |-> "checkParent", fileMetadata |-> NoDoc,
   checked |-> FALSE, code |-> "none"]

\* the requests that request r may be; its name is App.js or index.js
RequestsOf(r) ==
  LET names == {AppJs, IndexJs}
  IN {UpdateFileRequest(id, name, parentId) :
        id \in RaceIds, name \in names \cup {NoName},
        parentId \in RaceIds \cup {NULL, UNDEF}}
     \cup {CreateFileRequest(NewId(r), name, type, parentId) :
             name \in names, type \in Types, parentId \in RaceIds \cup {NULL}}

answered(request, code) == [request EXCEPT !.pc = "done", !.code = code]

InitRace ==
  /\ \E S \in SUBSET RaceIds :
       \E tf \in [S -> Types], nf \in [S -> {AppJs, AppCss}],
          parf \in [S -> RaceIds \cup {NULL}] :
         /\ files = [i \in S |-> Doc(1, nf[i], tf[i], parf[i],
                                     IF tf[i] = "file" THEN i ELSE NULL, 0)]
         /\ I3(files)
         /\ I4(files)
         /\ blobs = {i \in S : tf[i] = "file"}
  /\ projects = {1}
  /\ last \in [Requests -> UNION {RequestsOf(r) : r \in Requests}]
  /\ \A r \in Requests : last[r] \in RequestsOf(r)
  /\ \A r \in Requests :
       last[r].op = "updateFile"
       => last[r].name # NoName \/ last[r].parentId # UNDEF
  /\ flat = <<>>
  /\ tree = <<>>

\* updateFile lines 293-302
RaceFindById(r) ==
  /\ last[r].pc = "findById"
  /\ last' = [last EXCEPT ![r] =
       IF ~findById(files, @.id) THEN answered(@, "FILE_NOT_FOUND")
       ELSE [@ EXCEPT !.pc = "checkName", !.fileMetadata = files[last[r].id]]]
  /\ UNCHANGED <<projects, files, blobs, flat, tree>>

\* updateFile lines 304-322, createFile lines 142-158
RaceCheckName(r) ==
  LET q == last[r]
      dir == IF q.parentId # UNDEF THEN q.parentId ELSE q.fileMetadata.parentId
  IN /\ q.pc = "checkName"
     /\ last' = [last EXCEPT ![r] =
          IF q.op = "updateFile"
          THEN IF q.name # NoName /\ q.name # q.fileMetadata.name
               THEN IF findSibling(files, q.fileMetadata.projectId, q.name, dir, q.id)
                    THEN answered(q, "FILE_EXISTS")
                    ELSE [q EXCEPT !.pc = "checkParent", !.checked = TRUE]
               ELSE [q EXCEPT !.pc = "checkParent"]
          ELSE IF findSibling(files, 1, q.name, q.parentId, NULL)
               THEN answered(q, "FILE_EXISTS")
               ELSE [q EXCEPT !.pc = "write", !.checked = TRUE]]
     /\ UNCHANGED <<projects, files, blobs, flat, tree>>

\* updateFile lines 324-342, createFile lines 80-140
RaceCheckParent(r) ==
  LET q == last[r]
  IN /\ q.pc = "checkParent"
     /\ last' = [last EXCEPT ![r] =
          IF q.op = "updateFile"
          THEN IF /\ q.parentId # UNDEF
                  /\ parentIdDiffers(q.parentId, q.fileMetadata.parentId)
                  /\ q.parentId # NULL
                  /\ ~findFolder(files, q.parentId, q.fileMetadata.projectId)
               THEN answered(q, "PARENT_NOT_FOUND")
               ELSE [q EXCEPT !.pc = "write"]
          ELSE IF q.parentId # NULL /\ ~findFolder(files, q.parentId, 1)
               THEN answered(q, "PARENT_NOT_FOUND")
               ELSE [q EXCEPT !.pc = "checkName"]]
     /\ UNCHANGED <<projects, files, blobs, flat, tree>>

\* updateFile lines 353-375, createFile lines 160-210
RaceWrite(r) ==
  LET q == last[r]
  IN /\ q.pc = "write"
     /\ IF q.op = "updateFile"
        THEN /\ files' = Insert(files, q.id,
                                updateData(files[q.id], q.name, q.parentId, UNDEF))
             /\ UNCHANGED blobs
             /\ last' = [last EXCEPT ![r] = answered(q, "UPDATED")]
        ELSE /\ files' = Insert(files, q.id,
                                Doc(1, q.name, q.type, q.parentId,
                                    IF q.type = "file" THEN q.id ELSE NULL, 0))
             /\ blobs' = IF q.type = "file" THEN blobs \cup {q.id} ELSE blobs
             /\ last' = [last EXCEPT ![r] = answered(q, "CREATED")]
     /\ UNCHANGED <<projects, flat, tree>>

NextRace ==
  \E r \in Requests :
    \/ RaceFindById(r)
    \/ RaceCheckName(r)
    \/ RaceCheckParent(r)
    \/ RaceWrite(r)

SpecRace == InitRace /\ [][NextRace]_vars

\* C26: no lock is held from the naming-conflict check to the write and the
\* store turns no write down: a request that has passed its checks commits
\* its write whatever the other request has written since, so that two
\* requests that both passed the check can leave two documents with the same
\* (projectId, parentId, name).
C26_WriteCommitsAfterStaleCheck ==
  [][ \A r \in Requests :
        (last[r].pc = "write" /\ last'[r].pc = "done")
        => /\ last'[r].code \in {"UPDATED", "CREATED"}
           /\ last[r].id \in Stored(files')
           /\ last[r].name # NoName => files'[last[r].id].name = last[r].name
           /\ last[r].parentId # UNDEF
              => files'[last[r].id].parentId = last[r].parentId ]_vars

\* two updateFile requests ran their naming-conflict query, found nothing and
\* committed, and their two documents have the same (projectId, parentId, name)
C26_Witness ==
  /\ DOMAIN last = Requests
  /\ \A r \in Requests :
       /\ last[r].op = "updateFile"
       /\ last[r].pc = "done"
       /\ last[r].checked
       /\ last[r].code \in {"UPDATED", "CREATED"}
  /\ last[1].id # last[2].id
  /\ ~I3(files)
  /\ files[last[1].id].name = files[last[2].id].name
  /\ files[last[1].id].parentId = files[last[2].id].parentId
  /\ \E r \in Requests : last[r].parentId # UNDEF

====
